---- MODULE Spec2Model ----
(***************************************************************************)
(* The announcement monitor of app.py: a Streamlit script that is re-run   *)
(* from top to bottom on every widget event and on every st.rerun().  One  *)
(* action of this module is one script run; st.session_state is the state  *)
(* that survives between runs.                                             *)
(*                                                                         *)
(* Strings that the code inspects (filenames, the recipient address) are   *)
(* sequences of one-character strings.  The wall-clock text inside a log   *)
(* entry (strftime) is not kept: a log entry is its message and filename.  *)
(***************************************************************************)
EXTENDS Integers, Sequences, FiniteSets, TLC

VARIABLES
    monitoring,           \* st.session_state.monitoring
    last_known_filename,  \* st.session_state.last_known_filename
    last_check_time,      \* st.session_state.last_check_time
    log,                  \* st.session_state.log
    recipient_email,      \* value of the "Recipient Email Address" text input
    time_left,            \* what the "Next Check In" metric shows in the latest run, or Empty
    now,                  \* the wall clock, time.time()
    attempts,             \* history: the send_email calls made so far, in order
    failed_fetch_at,      \* history: the time of the latest fetch_data call if it failed, else 0
    sleeps,               \* history: number of time.sleep(1) calls made so far
    ev,                   \* observation of the latest script run
    validated_recipient,  \* history: the address that passed line 99 at the latest start
    session_fetch_at,     \* history: the time of the latest fetch_data call since
                          \* monitoring was last switched off, else 0
    tick_pc,              \* overlapping ticks only: the line each tick is at
    tick_local            \* overlapping ticks only: the local variables of each tick

history_vars == <<validated_recipient, session_fetch_at>>
overlap_vars == <<tick_pc, tick_local>>

vars == <<monitoring, last_known_filename, last_check_time, log, recipient_email,
          time_left, now, attempts, failed_fetch_at, sleeps, ev,
          validated_recipient, session_fetch_at, tick_pc, tick_local>>

-----------------------------------------------------------------------------
(* Program constants *)

CHECK_INTERVAL_SECONDS == 300

\* "23.txt", the marker a fresh session starts with
BaselineFilename == <<"2", "3", ".", "t", "x", "t">>

\* "recipient_email@example.com", the default of the text input
DefaultRecipient ==
    <<"r", "e", "c", "i", "p", "i", "e", "n", "t", "_", "e", "m", "a", "i", "l",
      "@", "e", "x", "a", "m", "p", "l", "e", ".", "c", "o", "m">>

-----------------------------------------------------------------------------
(* Bounds of the exploration *)

\* the first reading of time.time(); the real clock reads seconds since 1970
StartClock == 1000
\* the clock is followed for this many seconds after StartClock
MaxElapsed == 302
\* runs that append to the log are explored while the log is shorter than this
MaxLog == 2
\* countdown runs (time.sleep(1)) are explored this many times
MaxSleeps == 2

\* runs cut short inside send_email are explored while fewer attempts than this were made
MaxAttempts == 1

\* get_numeric_from_filename alone is explored on identifiers up to this length
MaxIdLen == 4

\* jumps of the wall clock between two script runs
AdvanceSteps == {299}

\* filenames the feed may carry: "24.txt", "n25_7.pdf", "noNumbers"
F24 == <<"2", "4", ".", "t", "x", "t">>
F25 == <<"n", "2", "5", "_", "7", ".", "p", "d", "f">>
FNone == <<"n", "o", "N", "u", "m", "b", "e", "r", "s">>
Filenames == {BaselineFilename, F24, F25, FNone}

\* what the user may type into the recipient field: "", "no-at-sign", the default
RNoAt == <<"n", "o", "-", "a", "t", "-", "s", "i", "g", "n">>
Recipients == {<<>>, RNoAt, DefaultRecipient}

-----------------------------------------------------------------------------
(* get_numeric_from_filename *)

DigitChars == <<"0", "1", "2", "3", "4", "5", "6", "7", "8", "9">>

IsDigit(c) == \E i \in 1..10 : DigitChars[i] = c

DigitVal(c) == (CHOOSE i \in 1..10 : DigitChars[i] = c) - 1

\* length of the maximal run of digits s starts with
DigitPrefixLen(s) ==
    IF \A i \in 1..Len(s) : IsDigit(s[i]) THEN Len(s)
    ELSE (CHOOSE i \in 1..Len(s) : ~IsDigit(s[i]) /\ \A j \in 1..(i-1) : IsDigit(s[j])) - 1

\* re.findall(r'\d+', s): the maximal runs of digits of s, left to right
RECURSIVE findall_digits(_)
findall_digits(s) ==
    IF s = <<>> THEN <<>>
    ELSE IF ~IsDigit(Head(s)) THEN findall_digits(Tail(s))
    ELSE LET n == DigitPrefixLen(s)
         IN  <<SubSeq(s, 1, n)>> \o findall_digits(SubSeq(s, n + 1, Len(s)))

\* int(run) of a run of decimal digits
RECURSIVE int(_)
int(r) ==
    IF r = <<>> THEN 0
    ELSE int(SubSeq(r, 1, Len(r) - 1)) * 10 + DigitVal(r[Len(r)])

\* variant: the last run of digits is taken
NumericFromLastRun(filename) ==
    LET numbers == findall_digits(filename)
    IN  IF numbers # <<>> THEN int(numbers[Len(numbers)]) ELSE 0

get_numeric_from_filename(filename) ==
    LET numbers == findall_digits(filename)
    IN  IF numbers # <<>> THEN int(numbers[1]) ELSE 0

-----------------------------------------------------------------------------
(* fetch_data: what one call may return.  status "error" is the None of    *)
(* the except branch; otherwise the decoded JSON object, given by the keys *)
(* it has and the list under "announcements".                              *)

Announcement(f) == [filename |-> f, content |-> "html"]

AnnouncementLists ==
    {<<Announcement(f)>> : f \in Filenames}
      \cup {<<Announcement(f), Announcement(F25)>> : f \in Filenames}

fetch_data ==
    {[status |-> "error", keys |-> {}, announcements |-> <<>>]}
      \cup {[status |-> "ok", keys |-> k, announcements |-> <<>>] :
               k \in {{}, {"message"}, {"announcements"}}}
      \cup {[status |-> "ok", keys |-> {"announcements"}, announcements |-> l] :
               l \in AnnouncementLists}

\* data and "announcements" in data and data["announcements"]
HasAnnouncements(data) ==
    /\ data.status = "ok"
    /\ data.keys # {}
    /\ "announcements" \in data.keys
    /\ data.announcements # <<>>

\* outcomes of send_email: True, or False after an exception
send_email == {TRUE, FALSE}

-----------------------------------------------------------------------------
(* Log entries *)

Entry(msg, f) == [msg |-> msg, filename |-> f]

StartedEntry == Entry("Monitoring started.", <<>>)
StoppedEntry == Entry("Monitoring stopped.", <<>>)
NewEntry(f) == Entry("New Announcement Found!", f)
NoNewEntry(f) == Entry("No new announcements.", f)

-----------------------------------------------------------------------------
(* Observation of a script run *)

Empty == 0 - 1

NoFile == <<>>

Observed(op, ticked, fetched, result, latest, sent) ==
    [op |-> op, ticked |-> ticked, fetched |-> fetched, result |-> result,
     latest |-> latest, sent |-> sent, at |-> now]

Quiet(op) == Observed(op, FALSE, FALSE, "none", NoFile, "none")

\* two runs of the monitoring block, for the case that they overlap
Ticks == {1, 2}

NoLocals == [current_time |-> 0, latest_filename |-> NoFile]

-----------------------------------------------------------------------------
Init ==
    /\ monitoring = FALSE
    /\ last_known_filename = BaselineFilename
    /\ last_check_time = 0
    /\ log = <<>>
    /\ recipient_email = DefaultRecipient
    /\ time_left = Empty
    /\ now = StartClock
    /\ attempts = <<>>
    /\ failed_fetch_at = 0
    /\ sleeps = 0
    /\ ev = Quiet("init")
    /\ validated_recipient = <<>>
    /\ session_fetch_at = 0
    /\ tick_pc = [p \in Ticks |-> "idle"]
    /\ tick_local = [p \in Ticks |-> NoLocals]

-----------------------------------------------------------------------------
(* The monitoring block of the script, lines 130-186 *)

Max(a, b) == IF a > b THEN a ELSE b

\* variant: the interval counts as passed at equality already
IntervalPassedOrEqual(current_time) ==
    current_time - last_check_time >= CHECK_INTERVAL_SECONDS

\* variant: the two times are subtracted the other way round
IntervalPassedReversed(current_time) ==
    last_check_time - current_time > CHECK_INTERVAL_SECONDS

\* current_time - st.session_state.last_check_time > CHECK_INTERVAL_SECONDS
IntervalPassed(current_time) ==
    current_time - last_check_time > CHECK_INTERVAL_SECONDS

\* variant: an equal ordinal counts as new
IsNewOrSame(latest_num, last_known_num) == latest_num >= last_known_num

\* variant: any other ordinal counts as new
IsDifferent(latest_num, last_known_num) == latest_num # last_known_num

\* latest_num > last_known_num
IsNew(latest_num, last_known_num) == latest_num > last_known_num

\* variant: the marker advances only when the mail went out
MarkerOnlyOnSuccess(latest_filename, send_ok) ==
    IF send_ok THEN latest_filename ELSE last_known_filename

\* st.session_state.last_known_filename = latest_filename, after send_email returned
MarkerAfterSend(latest_filename, send_ok) == latest_filename

\* variant: a failed fetch is written to the log
LogFetchError(data) ==
    IF data.status = "error" THEN Append(log, Entry("Error fetching data", <<>>)) ELSE log

\* the log after a fetch that returned None, or no usable list: nothing is appended
\* (fetch_data reports the exception with st.toast, not in st.session_state.log)
LogAfterNoData(data) == log

\* variant: a failed fetch gives its slot back
RollBackOnError(current_time, data) ==
    IF data.status = "error" THEN last_check_time ELSE current_time

\* line 137 stores the time of the check before fetch_data is called, and nothing
\* stores another one afterwards, whatever fetch_data returned
CheckTimeAfterFetch(current_time, data) == current_time

\* variant: a fetch without a usable answer switches monitoring off
StopWithoutData(data) == IF HasAnnouncements(data) THEN monitoring ELSE FALSE

\* no line of the monitoring block assigns st.session_state.monitoring
MonitoringAfterFetch(data) == monitoring

ResultKind(data) ==
    IF data.status = "error" THEN "error"
    ELSE IF HasAnnouncements(data) THEN "ok" ELSE "no_list"

\* lines 137-172 for the answer data of fetch_data
FetchBranchWith(op, rcpt, data) ==
    /\ last_check_time' = CheckTimeAfterFetch(now, data)
    /\ monitoring' = MonitoringAfterFetch(data)
    /\ failed_fetch_at' = (IF data.status = "error" THEN now ELSE 0)
    /\ session_fetch_at' = now
    /\ time_left' = Empty
    /\ UNCHANGED <<now, sleeps, validated_recipient>>
    /\ IF HasAnnouncements(data)
       THEN LET latest_announcement == data.announcements[1]
                latest_filename == latest_announcement.filename
                last_known_num == get_numeric_from_filename(last_known_filename)
                latest_num == get_numeric_from_filename(latest_filename)
            IN  IF IsNew(latest_num, last_known_num)
                THEN \E send_ok \in send_email :
                     /\ Len(log) < MaxLog
                     /\ log' = Append(log, NewEntry(latest_filename))
                     /\ attempts' = Append(attempts,
                                           [filename |-> latest_announcement.filename,
                                            to |-> rcpt])
                     /\ last_known_filename' = MarkerAfterSend(latest_filename, send_ok)
                     /\ ev' = Observed(op, TRUE, TRUE, "ok", latest_filename,
                                       IF send_ok THEN "sent" ELSE "failed")
                ELSE /\ Len(log) < MaxLog
                     /\ log' = Append(log, NoNewEntry(latest_filename))
                     /\ ev' = Observed(op, TRUE, TRUE, "ok", latest_filename, "none")
                     /\ UNCHANGED <<attempts, last_known_filename>>
       ELSE /\ log' = LogAfterNoData(data)
            /\ ev' = Observed(op, TRUE, TRUE, ResultKind(data), NoFile, "none")
            /\ UNCHANGED <<attempts, last_known_filename>>

\* lines 137-172: the interval has passed
FetchBranch(op, rcpt) ==
    \E data \in fetch_data : FetchBranchWith(op, rcpt, data)

\* lines 174-182: the countdown, time.sleep(1) and st.rerun().  The clock is
\* counted in whole seconds, so line 176 reads what line 133 read
CountdownBranch(op) ==
    /\ sleeps < MaxSleeps
    /\ now + 1 <= StartClock + MaxElapsed
    /\ LET next_check_time == last_check_time + CHECK_INTERVAL_SECONDS
       IN  time_left' = Max(0, next_check_time - now)
    /\ now' = now + 1
    /\ sleeps' = sleeps + 1
    /\ ev' = Observed(op, TRUE, FALSE, "none", NoFile, "none")
    /\ UNCHANGED <<monitoring, last_known_filename, last_check_time, log, attempts,
                   failed_fetch_at, history_vars>>

\* lines 184-186: monitoring is off
StoppedBranch(op) ==
    /\ time_left' = Empty
    /\ ev' = Quiet(op)
    /\ UNCHANGED <<monitoring, last_known_filename, last_check_time, log, attempts,
                   failed_fetch_at, now, sleeps, history_vars>>

\* variant: the monitoring block runs whether monitoring is on or off
MainAreaAlways(op, rcpt) ==
    IF IntervalPassed(now)
    THEN FetchBranch(op, rcpt)
    ELSE CountdownBranch(op)

\* the part of a run below the sidebar, reached when no button handler reran the
\* script; smtp_config carries the recipient rcpt read by this run
MainArea(op, rcpt) ==
    IF monitoring
    THEN IF IntervalPassed(now)
         THEN FetchBranch(op, rcpt)
         ELSE CountdownBranch(op)
    ELSE StoppedBranch(op)

-----------------------------------------------------------------------------
(* Script runs *)

\* variant: only the empty address is rejected
RejectedWhenEmpty(r) == r = <<>>

\* not recipient_email or "@" not in recipient_email
RecipientRejected(r) == r = <<>> \/ ~(\E i \in 1..Len(r) : r[i] = "@")

\* a run started by st.rerun(), with no widget event: one tick
Tick ==
    /\ MainArea("tick", recipient_email)
    /\ UNCHANGED <<recipient_email, overlap_vars>>

\* the user commits another text in the recipient field: a run with the new value
EditRecipient ==
    \E r \in Recipients :
        /\ r # recipient_email
        /\ recipient_email' = r
        /\ MainArea("edit", r)
        /\ UNCHANGED overlap_vars

\* variant: start keeps the time of the last check
KeepCheckTime == last_check_time

\* st.session_state.last_check_time = 0
CheckTimeAfterStart == 0

\* variant: start returns the marker to the baseline
MarkerResetAtStart == BaselineFilename

\* the start handler assigns monitoring, last_check_time and log, and not
\* st.session_state.last_known_filename
MarkerAfterStart == last_known_filename

\* "Start Monitoring" is clicked, lines 98-105.  A rejected address only shows a
\* warning, and the run goes on to the main area
StartMonitoring ==
    IF RecipientRejected(recipient_email)
    THEN /\ MainArea("start", recipient_email)
         /\ UNCHANGED <<recipient_email, overlap_vars>>
    ELSE /\ Len(log) < MaxLog
         /\ monitoring' = TRUE
         /\ last_check_time' = CheckTimeAfterStart
         /\ log' = Append(log, StartedEntry)
         /\ ev' = Quiet("start")
         /\ time_left' = Empty
         /\ validated_recipient' = recipient_email
         /\ last_known_filename' = MarkerAfterStart
         /\ UNCHANGED <<recipient_email, now, attempts,
                        failed_fetch_at, sleeps, session_fetch_at, overlap_vars>>

\* "Stop Monitoring" is clicked, lines 108-111
StopMonitoring ==
    /\ Len(log) < MaxLog
    /\ monitoring' = FALSE
    /\ log' = Append(log, StoppedEntry)
    /\ ev' = Quiet("stop")
    /\ time_left' = Empty
    /\ session_fetch_at' = 0
    /\ UNCHANGED <<last_known_filename, last_check_time, recipient_email, now,
                   attempts, failed_fetch_at, sleeps, validated_recipient, overlap_vars>>

\* variant: clearing the log also forgets the time of the last check
ClearLogAndCheckTime ==
    /\ log' = <<>>
    /\ last_check_time' = 0
    /\ ev' = Quiet("clear")
    /\ time_left' = Empty
    /\ UNCHANGED <<monitoring, last_known_filename, recipient_email,
                   now, attempts, failed_fetch_at, sleeps, history_vars, overlap_vars>>

\* "Clear Log" is clicked, lines 114-116
ClearLog ==
    /\ log' = <<>>
    /\ ev' = Quiet("clear")
    /\ time_left' = Empty
    /\ UNCHANGED <<monitoring, last_known_filename, last_check_time, recipient_email,
                   now, attempts, failed_fetch_at, sleeps, history_vars, overlap_vars>>

\* time passes between two runs
Advance ==
    \E d \in AdvanceSteps :
        /\ now + d <= StartClock + MaxElapsed
        /\ now' = now + d
        /\ ev' = Quiet("advance")
        /\ UNCHANGED <<monitoring, last_known_filename, last_check_time, log,
                       recipient_email, time_left, attempts, failed_fetch_at, sleeps,
                       history_vars, overlap_vars>>

Next ==
    \/ Tick
    \/ EditRecipient
    \/ StartMonitoring
    \/ StopMonitoring
    \/ ClearLog
    \/ Advance

Spec == Init /\ [][Next]_vars

-----------------------------------------------------------------------------
(* A widget event that arrives while a run is inside the monitoring block.   *)
(* Streamlit ends a running script at its next st.* call once an event is    *)
(* pending, by raising an exception that derives from BaseException, which   *)
(* the `except Exception` of send_email does not catch.  In the branch of a  *)
(* new announcement the next st.* call after fetch_data returned is the      *)
(* st.toast of line 62 or the st.error of line 65: lines 137, 153 and the    *)
(* SMTP session of lines 59-61 have run, line 165 has not.                   *)

\* a run of the monitoring block that a pending event ends inside send_email
CutTick ==
    /\ monitoring
    /\ IntervalPassed(now)
    /\ Len(log) < MaxLog
    /\ Len(attempts) < MaxAttempts
    /\ \E data \in fetch_data, send_ok \in send_email :
         /\ HasAnnouncements(data)
         /\ LET latest_announcement == data.announcements[1]
                latest_filename == latest_announcement.filename
                last_known_num == get_numeric_from_filename(last_known_filename)
                latest_num == get_numeric_from_filename(latest_filename)
            IN  /\ IsNew(latest_num, last_known_num)
                /\ last_check_time' = now
                /\ log' = Append(log, NewEntry(latest_filename))
                /\ attempts' = Append(attempts,
                                      [filename |-> latest_announcement.filename,
                                       to |-> recipient_email])
                /\ ev' = Observed("cut", TRUE, TRUE, "ok", latest_filename,
                                  IF send_ok THEN "sent" ELSE "failed")
    /\ failed_fetch_at' = 0
    /\ session_fetch_at' = now
    /\ time_left' = Empty
    /\ UNCHANGED <<monitoring, last_known_filename, recipient_email, now, sleeps,
                   validated_recipient, overlap_vars>>

\* the run that follows a cut run is the run of the event that cut it
NextInterrupt ==
    \/ ev.op # "cut" /\ Tick
    \/ EditRecipient
    \/ StartMonitoring
    \/ StopMonitoring
    \/ ClearLog
    \/ ev.op # "cut" /\ Advance
    \/ CutTick

SpecInterrupt == Init /\ [][NextInterrupt]_vars

-----------------------------------------------------------------------------
(* Two runs of the monitoring block that overlap: each run executes lines    *)
(* 133-165 one statement at a time, and the statements of the two runs        *)
(* interleave in any order.  tick_pc[p] is the statement run p executes next. *)

AtLine(p, line) == [op |-> "line", tick |-> p, line |-> line, at |-> now]

Goto(p, label) == tick_pc' = [tick_pc EXCEPT ![p] = label]

\* lines 130-133: monitoring is on; current_time = time.time()
ReadTime(p) ==
    /\ tick_pc[p] = "idle"
    /\ monitoring
    /\ Goto(p, "check")
    /\ tick_local' = [tick_local EXCEPT ![p] = [current_time |-> now,
                                                latest_filename |-> NoFile]]
    /\ ev' = AtLine(p, 133)
    /\ UNCHANGED <<monitoring, last_known_filename, last_check_time, log, recipient_email,
                   time_left, now, attempts, failed_fetch_at, sleeps, history_vars>>

\* line 136, the interval has passed
CheckPassed(p) ==
    /\ tick_pc[p] = "check"
    /\ IntervalPassed(tick_local[p].current_time)
    /\ Goto(p, "store")
    /\ ev' = AtLine(p, 136)
    /\ UNCHANGED <<monitoring, last_known_filename, last_check_time, log, recipient_email,
                   time_left, now, attempts, failed_fetch_at, sleeps, history_vars,
                   tick_local>>

\* line 136, the interval has not passed: lines 175-182
CheckNotPassed(p) ==
    /\ tick_pc[p] = "check"
    /\ ~IntervalPassed(tick_local[p].current_time)
    /\ sleeps < MaxSleeps
    /\ now + 1 <= StartClock + MaxElapsed
    /\ LET next_check_time == last_check_time + CHECK_INTERVAL_SECONDS
       IN  time_left' = Max(0, next_check_time - now)
    /\ now' = now + 1
    /\ sleeps' = sleeps + 1
    /\ Goto(p, "idle")
    /\ tick_local' = [tick_local EXCEPT ![p] = NoLocals]
    /\ ev' = AtLine(p, 182)
    /\ UNCHANGED <<monitoring, last_known_filename, last_check_time, log, recipient_email,
                   attempts, failed_fetch_at, history_vars>>

\* line 137: st.session_state.last_check_time = current_time
StoreCheckTime(p) ==
    /\ tick_pc[p] = "store"
    /\ last_check_time' = tick_local[p].current_time
    /\ Goto(p, "fetch")
    /\ ev' = AtLine(p, 137)
    /\ UNCHANGED <<monitoring, last_known_filename, log, recipient_email, time_left, now,
                   attempts, failed_fetch_at, sleeps, history_vars, tick_local>>

\* lines 139-144: data = fetch_data(API_URL) and the test of line 142; the
\* check this fetch belongs to is the one of the run's current_time
FetchData(p) ==
    /\ tick_pc[p] = "fetch"
    /\ \E data \in fetch_data :
         /\ failed_fetch_at' = (IF data.status = "error" THEN now ELSE 0)
         /\ IF HasAnnouncements(data)
            THEN /\ tick_local' = [tick_local EXCEPT
                                      ![p].latest_filename = data.announcements[1].filename]
                 /\ Goto(p, "compare")
            ELSE /\ tick_local' = [tick_local EXCEPT ![p] = NoLocals]
                 /\ Goto(p, "idle")
    /\ session_fetch_at' = tick_local[p].current_time
    /\ ev' = AtLine(p, 139)
    /\ UNCHANGED <<monitoring, last_known_filename, last_check_time, log, recipient_email,
                   time_left, now, attempts, sleeps, validated_recipient>>

\* lines 148-151, and lines 168-169 when the announcement is not new
CompareOrdinals(p) ==
    /\ tick_pc[p] = "compare"
    /\ LET latest_filename == tick_local[p].latest_filename
           last_known_num == get_numeric_from_filename(last_known_filename)
           latest_num == get_numeric_from_filename(latest_filename)
       IN  IF IsNew(latest_num, last_known_num)
           THEN /\ Goto(p, "log")
                /\ UNCHANGED <<log, tick_local>>
           ELSE /\ Len(log) < MaxLog
                /\ log' = Append(log, NoNewEntry(latest_filename))
                /\ tick_local' = [tick_local EXCEPT ![p] = NoLocals]
                /\ Goto(p, "idle")
    /\ ev' = AtLine(p, 151)
    /\ UNCHANGED <<monitoring, last_known_filename, last_check_time, recipient_email,
                   time_left, now, attempts, failed_fetch_at, sleeps, history_vars>>

\* lines 152-153: the "New Announcement Found!" entry
LogNew(p) ==
    /\ tick_pc[p] = "log"
    /\ Len(log) < MaxLog
    /\ log' = Append(log, NewEntry(tick_local[p].latest_filename))
    /\ Goto(p, "send")
    /\ ev' = AtLine(p, 153)
    /\ UNCHANGED <<monitoring, last_known_filename, last_check_time, recipient_email,
                   time_left, now, attempts, failed_fetch_at, sleeps, history_vars,
                   tick_local>>

\* line 163: send_email(email_subject, email_body, smtp_config)
SendEmail(p) ==
    /\ tick_pc[p] = "send"
    /\ attempts' = Append(attempts, [filename |-> tick_local[p].latest_filename,
                                     to |-> recipient_email])
    /\ Goto(p, "mark")
    /\ ev' = AtLine(p, 163)
    /\ UNCHANGED <<monitoring, last_known_filename, last_check_time, log, recipient_email,
                   time_left, now, failed_fetch_at, sleeps, history_vars, tick_local>>

\* line 165: st.session_state.last_known_filename = latest_filename
MarkKnown(p) ==
    /\ tick_pc[p] = "mark"
    /\ last_known_filename' = tick_local[p].latest_filename
    /\ Goto(p, "idle")
    /\ tick_local' = [tick_local EXCEPT ![p] = NoLocals]
    /\ ev' = AtLine(p, 165)
    /\ UNCHANGED <<monitoring, last_check_time, log, recipient_email, time_left, now,
                   attempts, failed_fetch_at, sleeps, history_vars>>

TickStep(p) ==
    \/ ReadTime(p)
    \/ CheckPassed(p)
    \/ CheckNotPassed(p)
    \/ StoreCheckTime(p)
    \/ FetchData(p)
    \/ CompareOrdinals(p)
    \/ LogNew(p)
    \/ SendEmail(p)
    \/ MarkKnown(p)

\* the monitor is started once, from STOPPED, and not stopped
NextOverlap ==
    \/ \E p \in Ticks : TickStep(p)
    \/ ~monitoring /\ StartMonitoring
    \/ ClearLog
    \/ Advance

SpecOverlap == Init /\ [][NextOverlap]_vars

-----------------------------------------------------------------------------
(* The rerun loop followed without end, monitoring never switched off.  The  *)
(* script uses the clock only through current_time - last_check_time (lines  *)
(* 136, 174-175) and never reads the log back into a decision, so after a    *)
(* run that fetched the clock is counted anew from StartClock and the log    *)
(* is dropped: the runs that follow are the same, and the unbounded run      *)
(* stays within the bounds of the exploration.                              *)

ForgetPast ==
    /\ ev.fetched
    /\ last_check_time' = StartClock
    /\ now' = now - (last_check_time - StartClock)
    /\ session_fetch_at' = StartClock
    /\ failed_fetch_at' = (IF failed_fetch_at = 0 THEN 0 ELSE StartClock)
    /\ sleeps' = 0
    /\ log' = <<>>
    /\ time_left' = Empty
    /\ ev' = Quiet("forget")
    /\ UNCHANGED <<monitoring, last_known_filename, recipient_email, attempts,
                   validated_recipient, overlap_vars>>

\* the answers of fetch_data whose first announcement is above the marker
NewerData ==
    {data \in fetch_data :
        /\ HasAnnouncements(data)
        /\ IsNew(get_numeric_from_filename(data.announcements[1].filename),
                 get_numeric_from_filename(last_known_filename))}

\* a tick that reaches send_email: the feed shows an announcement above the marker
NotifyingTick ==
    /\ ~ev.fetched
    /\ monitoring
    /\ IntervalPassed(now)
    /\ \E data \in NewerData : FetchBranchWith("tick", recipient_email, data)
    /\ UNCHANGED <<recipient_email, overlap_vars>>

\* the states in which NotifyingTick can be taken
CanNotify ==
    /\ ~ev.fetched
    /\ monitoring
    /\ IntervalPassed(now)
    /\ Len(log) < MaxLog
    /\ NewerData # {}

NextLive ==
    \/ ~ev.fetched /\ Tick
    \/ ~ev.fetched /\ EditRecipient
    \/ ~ev.fetched /\ StartMonitoring
    \/ ~ev.fetched /\ ClearLog
    \/ ~ev.fetched /\ Advance
    \/ ForgetPast

\* st.rerun() (lines 172, 182) starts the next run and time passes: weak
\* fairness of the tick and of the clock.  The feed shows a newer announcement
\* to some fetch whenever fetches keep coming: strong fairness of
\* NotifyingTick, stated with its enabling condition CanNotify written out
SpecLive ==
    /\ Init
    /\ [][NextLive]_vars
    /\ WF_vars(~ev.fetched /\ Tick)
    /\ WF_vars(~ev.fetched /\ Advance)
    /\ WF_vars(ForgetPast)
    /\ ([]<>CanNotify => []<><<NotifyingTick>>_vars)

-----------------------------------------------------------------------------
(* get_numeric_from_filename on its own: the identifier is drawn at the start  *)
(* and the function is applied to it.                                         *)

\* "notice_45_final.pdf"
Notice45 ==
    <<"n", "o", "t", "i", "c", "e", "_", "4", "5", "_", "f", "i", "n", "a", "l",
      ".", "p", "d", "f">>

IdChars == {"0", "2", "5", "n", "."}

Identifiers ==
    {BaselineFilename, F24, F25, FNone, Notice45}
      \cup UNION {[1..k -> IdChars] : k \in 0..MaxIdLen}

InitExtract ==
    /\ last_known_filename \in Identifiers
    /\ monitoring = FALSE
    /\ last_check_time = 0
    /\ log = <<>>
    /\ recipient_email = DefaultRecipient
    /\ time_left = Empty
    /\ now = StartClock
    /\ attempts = <<>>
    /\ failed_fetch_at = 0
    /\ sleeps = 0
    /\ ev = [op |-> "init", identifier |-> NoFile, value |-> 0]
    /\ validated_recipient = <<>>
    /\ session_fetch_at = 0
    /\ tick_pc = [p \in Ticks |-> "idle"]
    /\ tick_local = [p \in Ticks |-> NoLocals]

\* last_known_num = get_numeric_from_filename(st.session_state.last_known_filename)
ExtractOrdinal ==
    /\ ev' = [op |-> "extract", identifier |-> last_known_filename,
              value |-> get_numeric_from_filename(last_known_filename)]
    /\ UNCHANGED <<monitoring, last_known_filename, last_check_time, log, recipient_email,
                   time_left, now, attempts, failed_fetch_at, sleeps, history_vars,
                   overlap_vars>>

SpecExtract == InitExtract /\ [][ExtractOrdinal]_vars

-----------------------------------------------------------------------------
(* Properties *)

Ord(f) == get_numeric_from_filename(f)

Last(q) == q[Len(q)]

\* the latest run fetched and got a first announcement
FetchedLatest(e) == e.fetched /\ e.result = "ok"

\* C1: the ordinals of the announcements a notification was attempted for, in
\* the order of the attempts, are strictly increasing; so no ordinal is
\* notified twice, whatever the send outcomes and the starts and stops between.
C1_AttemptsStrictlyIncreasing ==
    \A i, j \in 1..Len(attempts) :
        i < j => Ord(attempts[i].filename) < Ord(attempts[j].filename)

\* two attempts were made, and the send of the second one failed
C1_Witness ==
    /\ Len(attempts) = 2
    /\ ev.sent = "failed"
    /\ Ord(attempts[1].filename) < Ord(attempts[2].filename)

\* C2: no step lowers the ordinal of last_known_filename.
C2_MarkerNonDecreasing ==
    [][Ord(last_known_filename') >= Ord(last_known_filename)]_vars

\* a fetch has just shown an announcement below a marker that had advanced
C2_Witness ==
    /\ FetchedLatest(ev)
    /\ Ord(ev.latest) < Ord(last_known_filename)
    /\ Ord(last_known_filename) > Ord(BaselineFilename)

\* C3: a fetching tick that gets a first announcement with an ordinal above the
\* marker's makes exactly one notification attempt, for that announcement,
\* appends one "new announcement found" entry, leaves the marker at that
\* announcement's ordinal whether the send succeeded or failed, and leaves
\* monitoring on.
C3_NewAnnouncementTick ==
    [][ (FetchedLatest(ev') /\ Ord(ev'.latest) > Ord(last_known_filename))
          => /\ Len(attempts') = Len(attempts) + 1
             /\ SubSeq(attempts', 1, Len(attempts)) = attempts
             /\ Last(attempts').filename = ev'.latest
             /\ ev'.sent \in {"sent", "failed"}
             /\ log' = Append(log, NewEntry(ev'.latest))
             /\ Ord(last_known_filename') = Ord(ev'.latest)
             /\ monitoring' = TRUE ]_vars

\* a new announcement was found, the send failed and the marker moved to it
C3_Witness ==
    /\ FetchedLatest(ev)
    /\ ev.sent = "failed"
    /\ last_known_filename = ev.latest
    /\ Last(attempts).filename = ev.latest
    /\ monitoring

\* C4: a fetching tick that gets a first announcement with an ordinal not above
\* the marker's makes no notification attempt, leaves the marker as it is and
\* appends exactly one "no new announcements" entry.
C4_OldAnnouncementTick ==
    [][ (FetchedLatest(ev') /\ Ord(ev'.latest) <= Ord(last_known_filename))
          => /\ attempts' = attempts
             /\ ev'.sent = "none"
             /\ last_known_filename' = last_known_filename
             /\ log' = Append(log, NoNewEntry(ev'.latest)) ]_vars

\* the announcement that was notified before is fetched again
C4_Witness ==
    /\ FetchedLatest(ev)
    /\ ev.sent = "none"
    /\ Len(attempts) >= 1
    /\ Ord(ev.latest) = Ord(last_known_filename)
    /\ Last(log) = NoNewEntry(ev.latest)

\* C5: a fetching tick that gets no announcement (the fetch failed, or the
\* answer has no list or an empty one) makes no notification attempt, leaves
\* the marker as it is and leaves monitoring on.
C5_NoAnnouncementTick ==
    [][ (ev'.fetched /\ ev'.result \in {"error", "no_list"})
          => /\ attempts' = attempts
             /\ ev'.sent = "none"
             /\ last_known_filename' = last_known_filename
             /\ monitoring /\ monitoring' ]_vars

\* a fetch has just come back without a list, after the marker had advanced
C5_Witness ==
    /\ ev.fetched
    /\ ev.result = "no_list"
    /\ monitoring
    /\ Ord(last_known_filename) > Ord(BaselineFilename)

\* C6 as stated: a tick whose fetch fails makes the log one entry longer.
C6_FailedFetchLogsOneEntry ==
    [][ (ev'.fetched /\ ev'.result = "error") => Len(log') = Len(log) + 1 ]_vars

\* C6, amended: a tick whose fetch fails leaves the log as it is.
C6_FailedFetchLeavesLog ==
    [][ (ev'.fetched /\ ev'.result = "error") => log' = log ]_vars

\* a fetch has just failed while the log had an entry
C6_Witness ==
    /\ ev.fetched
    /\ ev.result = "error"
    /\ log # <<>>

\* a failed fetch made at failed_fetch_at is the latest fetch, and no start has
\* reset last_check_time since
FailedSlotStands == failed_fetch_at # 0 /\ last_check_time = failed_fetch_at

\* C7 as stated: after a tick whose fetch failed at time t, no tick fetches
\* while now - t <= CHECK_INTERVAL_SECONDS.
C7_NoFetchWithinIntervalOfFailure ==
    [][ (failed_fetch_at # 0 /\ ev'.fetched)
          => now - failed_fetch_at > CHECK_INTERVAL_SECONDS ]_vars

\* C7, amended: a tick whose fetch fails at time t leaves last_check_time = t;
\* no run other than a start or a fetching tick changes it; and as long as no
\* start has been handled since, a tick fetches exactly when
\* now - t > CHECK_INTERVAL_SECONDS.
C7_FailedFetchConsumesSlot ==
    [][ /\ (ev'.fetched /\ ev'.result = "error")
             => /\ last_check_time' = now
                /\ failed_fetch_at' = now
                /\ FailedSlotStands'
        /\ (FailedSlotStands /\ ev'.op # "start" /\ ~ev'.fetched)
             => FailedSlotStands' /\ last_check_time' = last_check_time
        /\ (FailedSlotStands /\ ev'.ticked)
             => (ev'.fetched <=> now - failed_fetch_at > CHECK_INTERVAL_SECONDS) ]_vars

\* exactly CHECK_INTERVAL_SECONDS after a failed fetch a tick ran and did not fetch
C7_Witness ==
    /\ FailedSlotStands
    /\ ev.ticked
    /\ ~ev.fetched
    /\ ev.at - failed_fetch_at = CHECK_INTERVAL_SECONDS

NoAt(r) == \A i \in 1..Len(r) : r[i] # "@"

\* C8: a start whose recipient address is empty or has no "@" leaves a stopped
\* monitor stopped and changes neither last_check_time, the marker nor the log.
C8_RejectedStartChangesNothing ==
    [][ (ev'.op = "start" /\ ~monitoring /\ (recipient_email = <<>> \/ NoAt(recipient_email)))
          => /\ monitoring' = FALSE
             /\ UNCHANGED <<last_check_time, last_known_filename, log, attempts>> ]_vars

\* start was clicked with "no-at-sign" in the field, after an earlier session
C8_Witness ==
    /\ ev.op = "start"
    /\ ~monitoring
    /\ recipient_email = RNoAt
    /\ last_check_time # 0
    /\ log # <<>>

\* C9: a start with a recipient address that is not empty and has an "@",
\* handled while stopped, switches monitoring on, sets last_check_time to 0 and
\* appends one entry; last_check_time then stays 0 until a tick runs, and that
\* tick fetches, however recent the fetch before it.
C9_ValidStartFetchesAtOnce ==
    [][ /\ (ev'.op = "start" /\ ~monitoring /\ recipient_email # <<>> /\ ~NoAt(recipient_email))
             => /\ monitoring' = TRUE
                /\ last_check_time' = 0
                /\ log' = Append(log, StartedEntry)
                /\ UNCHANGED <<last_known_filename, attempts>>
        /\ (monitoring /\ last_check_time = 0 /\ ~ev'.ticked /\ ev'.op # "stop")
             => monitoring' /\ last_check_time' = 0
        /\ (monitoring /\ last_check_time = 0 /\ ev'.ticked)
             => ev'.fetched /\ last_check_time' = now ]_vars

\* a stopped monitor has just been started again within the interval of its
\* latest fetch
C9_Witness ==
    /\ ev.op = "start"
    /\ monitoring
    /\ last_check_time = 0
    /\ log = <<StoppedEntry, StartedEntry>>
    /\ failed_fetch_at # 0
    /\ now - failed_fetch_at <= CHECK_INTERVAL_SECONDS

\* C10: a tick that runs while monitoring is on and
\* now - last_check_time <= CHECK_INTERVAL_SECONDS fetches nothing, attempts no
\* notification and leaves last_check_time, the marker, the log and monitoring
\* as they are; it only shows the countdown.
C10_TickWithinIntervalIsIdle ==
    [][ (ev'.ticked /\ monitoring /\ now - last_check_time <= CHECK_INTERVAL_SECONDS)
          => /\ ~ev'.fetched
             /\ ev'.sent = "none"
             /\ UNCHANGED <<last_check_time, last_known_filename, log, monitoring,
                            attempts, failed_fetch_at>>
             /\ time_left' = Max(0, last_check_time + CHECK_INTERVAL_SECONDS - now) ]_vars

\* a tick has run exactly CHECK_INTERVAL_SECONDS after the last check
C10_Witness ==
    /\ monitoring
    /\ ev.ticked
    /\ ~ev.fetched
    /\ ev.at - last_check_time = CHECK_INTERVAL_SECONDS
    /\ time_left = 0

\* 10 to the power n
RECURSIVE Pow10(_)
Pow10(n) == IF n = 0 THEN 1 ELSE 10 * Pow10(n - 1)

\* the sum of the digits s[k], i <= k <= j, each weighted by its decimal place
RECURSIVE PlaceSum(_, _, _)
PlaceSum(s, i, j) ==
    IF i > j THEN 0 ELSE DigitVal(s[i]) * Pow10(j - i) + PlaceSum(s, i + 1, j)

\* the value of the first maximal run of decimal digits of s, 0 when s has no digit
FirstRunValue(s) ==
    IF \A k \in 1..Len(s) : ~IsDigit(s[k]) THEN 0
    ELSE LET i == CHOOSE k \in 1..Len(s) :
                      IsDigit(s[k]) /\ \A m \in 1..(k - 1) : ~IsDigit(s[m])
             j == CHOOSE k \in i..Len(s) :
                      /\ \A m \in i..k : IsDigit(s[m])
                      /\ (k = Len(s) \/ ~IsDigit(s[k + 1]))
         IN  PlaceSum(s, i, j)

\* C11: for every identifier get_numeric_from_filename returns the value of the
\* first maximal run of decimal digits of the identifier, and 0 when the
\* identifier has no digit.
C11_ExtractsFirstDigitRun ==
    ev.op = "extract" => ev.value = FirstRunValue(ev.identifier)

\* the function was applied to "notice_45_final.pdf" and gave 45
C11_Witness ==
    /\ ev.op = "extract"
    /\ ev.identifier = Notice45
    /\ ev.value = 45

\* C12: while monitoring is off no run ticks, fetches or attempts a
\* notification, the marker does not change, and last_check_time changes only
\* in the run of a valid start, which is also the only run that switches
\* monitoring on; the run of a stop does not fetch and leaves monitoring off.
\* So after a stop nothing is fetched until a start has passed validation.
C12_StoppedMonitorIsQuiet ==
    [][/\ ~monitoring =>
            /\ ~ev'.ticked
            /\ ~ev'.fetched
            /\ attempts' = attempts
            /\ last_known_filename' = last_known_filename
            /\ (monitoring' \/ last_check_time' # last_check_time) =>
                    /\ ev'.op = "start"
                    /\ ~RecipientRejected(recipient_email)
                    /\ monitoring'
       /\ ev'.op = "stop" => ~ev'.fetched /\ ~monitoring'
      ]_vars

\* a run without a button click came while monitoring was off, more than the
\* interval after the last check of the stopped session, and did not tick
C12_Witness ==
    /\ ev.op = "tick"
    /\ ~monitoring
    /\ ~ev.ticked
    /\ last_check_time # 0
    /\ now - last_check_time > CHECK_INTERVAL_SECONDS
    /\ \E i \in 1..Len(log) : log[i] = StoppedEntry

\* C17: the ordinal of the marker is never below that of the baseline
\* "23.txt", which is 23 and so above 0; and a run that fetches a first
\* announcement whose filename has no digit makes no notification attempt and
\* leaves the marker as it was.
C17_MarkerAtLeastBaseline ==
    /\ [](/\ Ord(BaselineFilename) = 23
          /\ Ord(last_known_filename) >= Ord(BaselineFilename))
    /\ [][(FetchedLatest(ev') /\ Ord(ev'.latest) = 0) =>
              /\ ev'.sent = "none"
              /\ attempts' = attempts
              /\ last_known_filename' = last_known_filename]_vars

\* the latest run fetched "noNumbers" as the first announcement
C17_Witness ==
    /\ FetchedLatest(ev)
    /\ ev.latest = FNone
    /\ Ord(ev.latest) = 0
    /\ Last(log) = NoNewEntry(FNone)

\* C18: every run other than the one of "Clear Log" keeps the entries of the
\* log, in their order, as a prefix of the log after the run; the run of
\* "Clear Log" empties the log and changes neither monitoring, the marker nor
\* last_check_time.
C18_LogAppendOnly ==
    [][IF ev'.op = "clear"
       THEN /\ log' = <<>>
            /\ UNCHANGED <<monitoring, last_known_filename, last_check_time>>
       ELSE /\ Len(log') >= Len(log)
            /\ SubSeq(log', 1, Len(log)) = log]_vars

\* the log was cleared while monitoring was on, after a check had advanced the
\* marker
C18_Witness ==
    /\ ev.op = "clear"
    /\ log = <<>>
    /\ monitoring
    /\ last_check_time # 0
    /\ Ord(last_known_filename) > Ord(BaselineFilename)

\* C20: the run of a stop and the run of a valid start leave the marker and the
\* attempts as they were; and when the run right after a valid start attempts a
\* notification, its ordinal is above that of every earlier attempt.
C20_StopStartKeepMarker ==
    [][/\ (ev'.op = "stop" \/ (ev'.op = "start" /\ ~RecipientRejected(recipient_email))) =>
            /\ last_known_filename' = last_known_filename
            /\ attempts' = attempts
       /\ (ev.op = "start" /\ monitoring /\ Len(attempts') > Len(attempts)) =>
            \A i \in 1..Len(attempts) :
                Ord(attempts[i].filename) < Ord(Last(attempts').filename)
      ]_vars

\* monitoring was stopped and started again after the marker had advanced
C20_Witness ==
    /\ ev.op = "start"
    /\ monitoring
    /\ log = <<StoppedEntry, StartedEntry>>
    /\ Len(attempts) >= 1
    /\ Ord(last_known_filename) > Ord(BaselineFilename)
    /\ last_known_filename = Last(attempts).filename

\* C13: between two switchings-off of monitoring, a run that fetches does so
\* more than CHECK_INTERVAL_SECONDS after the previous fetch, whatever runs of
\* "Start Monitoring" and "Clear Log" came in between.
C13_FetchesMoreThanIntervalApart ==
    [][(ev'.fetched /\ session_fetch_at # 0) =>
           now - session_fetch_at > CHECK_INTERVAL_SECONDS]_vars

\* C14: every notification attempt goes to the address that passed the check of
\* line 99 at the latest start, an address that is not empty and contains "@".
C14_AttemptsGoToValidatedRecipient ==
    [][Len(attempts') > Len(attempts) =>
           /\ Last(attempts').to = validated_recipient
           /\ ~RecipientRejected(Last(attempts').to)]_vars

\* C16: every announcement a notification was attempted for has its ordinal
\* recorded in the marker, and no announcement is attempted twice, also when a
\* stop or another widget event arrives while the tick is being executed.
C16_AttemptedOrdinalIsRecorded ==
    /\ \A i \in 1..Len(attempts) :
           Ord(attempts[i].filename) <= Ord(last_known_filename)
    /\ \A i, j \in 1..Len(attempts) :
           i # j => attempts[i].filename # attempts[j].filename

\* C15: when two ticks overlap, a tick calls fetch_data only for a check time
\* more than CHECK_INTERVAL_SECONDS after the check time of the previous call,
\* so the two do not both fetch for the same interval; and no announcement gets
\* a second notification attempt.
C15_OverlappingTicksFireOnce ==
    [][/\ (\E p \in Ticks : tick_pc[p] = "fetch" /\ tick_pc'[p] # "fetch") =>
            \/ session_fetch_at = 0
            \/ session_fetch_at' - session_fetch_at > CHECK_INTERVAL_SECONDS
       /\ Len(attempts') > Len(attempts) =>
            \A i \in 1..Len(attempts) : attempts[i].filename # Last(attempts').filename
      ]_vars

\* C19: while monitoring is on, a run that did not fetch is always followed
\* by a run that fetches; after a run whose fetch failed or brought nothing to
\* notify, runs that do not fetch follow and then a run that fetches again;
\* and when the feed keeps showing an announcement above the marker, a
\* notification for the newest one the feed carries is eventually attempted.
C19_RetryByNextTick ==
    /\ (monitoring /\ ~ev.fetched) ~> ev.fetched
    /\ [](monitoring /\ ev.fetched /\ ev.sent = "none" =>
             <>(~ev.fetched /\ <>ev.fetched))
    /\ monitoring ~> (attempts # <<>> /\ Last(attempts).filename = F25)

\* monitoring is on, a run fetched more than the interval after the first
\* reading of the clock, its fetch failed, and nothing has been notified so far
C19_Witness ==
    /\ monitoring
    /\ ev.fetched
    /\ ev.result = "error"
    /\ ev.at > StartClock + CHECK_INTERVAL_SECONDS
    /\ attempts = <<>>

====
